---- MODULE Spec2Model ----
(***************************************************************************)
(* Model of xnat_canvas_integration.py: the reconciliation run of          *)
(* IntegrationManager.execute_integration against a Roster Service         *)
(* (Canvas) and an Archive Service (XNAT).  Every HTTP request is one step *)
(* whose response (status 200, 204, 500, or a transport exception, written *)
(* 0) is chosen by the environment.                                        *)
(***************************************************************************)
EXTENDS Integers, Sequences, FiniteSets, TLC

\* ------------------------------------------------------------------ bounds
MaxRuns == 2          \* runs of execute_integration in one behaviour
MaxParts == 2         \* participants enrolled in one course
CanvasPageCap == 1    \* participants the Roster Service puts on one page
MaxFaults == 1        \* responses other than the regular one in one behaviour

\* --------------------------------------------------------------- data pools
PyNone == <<"<None>">>                      \* Python None (no character is "<None>")
StudentWord == <<"s", "t", "u", "d", "e", "n", "t">>
StudentMail == <<"j", "@">> \o StudentWord \o <<".", "e", "d", "u">>
FacultyMail == <<"a", "@", "f", "a", "c", ".", "e", "d", "u">>

Jdoe == [login_id |-> "jdoe", email |-> StudentMail]
Asmith == [login_id |-> "asmith", email |-> FacultyMail]
Pending == [login_id |-> "", email |-> PyNone]
Ghost == [login_id |-> "ghost", email |-> <<>>]
NoMail == [login_id |-> "jdoe"]
ErrorKey == [key |-> "errors"]              \* a key of a JSON error body
ParticipantPool == {Jdoe, Asmith, Pending, Ghost, NoMail}

Radiology == [id |-> 7, name |-> "Radiology"]
Anatomy == [id |-> 12, name |-> "Anatomy"]
CourseIdPool == {Radiology.id, Anatomy.id}

Accounts == {"jdoe", "asmith"}

RECURSIVE SeqsUpTo(_, _)
SeqsUpTo(S, n) ==
    IF n = 0 THEN {<<>>}
    ELSE LET shorter == SeqsUpTo(S, n - 1)
         IN shorter \cup {Append(s, x) : s \in {t \in shorter : Len(t) = n - 1}, x \in S}

Catalogue == <<Radiology, Anatomy>>
CourseLists == {SubSeq(Catalogue, 1, n) : n \in 0..Len(Catalogue)}
ParticipantLists == SeqsUpTo(ParticipantPool, MaxParts)

\* ------------------------------------------------------------ pure helpers
\* f"{course_id}": the decimal digits of a non-negative integer
RECURSIVE Str(_)
Str(n) == IF n < 10 THEN <<n>> ELSE Str(n \div 10) \o <<n % 10>>

ProjectIdPool == {Str(i) : i \in CourseIdPool}

\* a substring test that looks at the start of the string only
StartsWith(s, sub) == Len(sub) <= Len(s) /\ SubSeq(s, 1, Len(sub)) = sub

\* Python `sub in s` on strings
RECURSIVE ContainsFrom(_, _, _)
ContainsFrom(s, sub, i) ==
    IF i + Len(sub) - 1 > Len(s) THEN FALSE
    ELSE IF SubSeq(s, i, i + Len(sub) - 1) = sub THEN TRUE
    ELSE ContainsFrom(s, sub, i + 1)
Contains(s, sub) == ContainsFrom(s, sub, 1)

\* Python truthiness of an optional string
Truthy(s) == s # PyNone /\ Len(s) > 0

\* role derivation inlined in process_participant
RoleInProcess(email) ==
    IF Truthy(email) /\ ~Contains(email, StudentWord) THEN "member" ELSE "collaborator"

\* role derivation of add_user_to_project
RoleInAdd(email) ==
    IF Truthy(email) /\ ~Contains(email, StudentWord) THEN "member" ELSE "collaborator"

\* response.ok
Ok(status) == status >= 200 /\ status < 400
\* _request: logging.error when the status is neither 200 nor 204
LogsError(status) == status \notin {200, 204}
Raised(status) == status = 0

HasKey(p, k) == k \in DOMAIN p

\* course_ids.index(course_id)
RECURSIVE IndexFrom(_, _, _)
IndexFrom(s, x, i) == IF s[i] = x THEN i ELSE IndexFrom(s, x, i + 1)
Index(s, x) == IndexFrom(s, x, 1)

Min(a, b) == IF a < b THEN a ELSE b

\* params={'page': page, 'per_page': 100}
PerPage == 100
\* participants on one page of the Roster Service's answer
PageSize == Min(PerPage, CanvasPageCap)

VARIABLES
    \* Roster Service
    canvas_courses, canvas_users,
    \* Archive Service
    xnat_projects, xnat_verified, xnat_enabled, xnat_members, xnat_session,
    \* XNATIntegration
    token,
    \* IntegrationManager
    processed_count, verified_count, enabled_count, added_to_project_count,
    \* the frame of execute_integration / process_participant
    pc, course_ids, course_names, project_ids, xnat_users, ci,
    canvas_participants, page, project_users, pn,
    \* observation of the run
    run, faults, tokenFailed, clean, crashSite, last, ptrace, snap, log, succeeded,
    \* role derivation on its own
    r_email, r_process, r_add

rosterVars == <<canvas_courses, canvas_users>>
archiveVars == <<xnat_projects, xnat_verified, xnat_enabled, xnat_members, xnat_session>>
counterVars == <<processed_count, verified_count, enabled_count, added_to_project_count>>
fetchedVars == <<course_ids, course_names, project_ids, xnat_users>>
loopVars == <<ci, canvas_participants, page, project_users, pn>>
frameVars == <<pc, fetchedVars, loopVars>>
roleVars == <<r_email, r_process, r_add>>
vars == <<rosterVars, archiveVars, token, counterVars, frameVars,
          run, faults, tokenFailed, clean, crashSite, last, ptrace, snap, log, succeeded,
          roleVars>>

NoCall == [call |-> "", arg |-> "", status |-> 200, errors |-> 0]
Counters == <<processed_count, verified_count, enabled_count, added_to_project_count>>

\* the frame before anything is fetched, and after the function is left
ResetFetched ==
    /\ course_ids' = <<>> /\ course_names' = <<>>
    /\ project_ids' = {} /\ xnat_users' = {}
ResetLoop ==
    /\ ci' = 0 /\ canvas_participants' = <<>> /\ page' = 1
    /\ project_users' = {} /\ pn' = 0

Init ==
    /\ canvas_courses \in CourseLists
    /\ \E enrolled \in ParticipantLists : canvas_users = [c \in CourseIdPool |-> enrolled]
    /\ \E seeded \in SUBSET {"jdoe"} :
        /\ xnat_verified = seeded
        /\ xnat_enabled = {}
        /\ xnat_projects = {Str(Radiology.id) : l \in seeded}
        /\ xnat_members = [p \in ProjectIdPool |->
                              IF p = Str(Radiology.id) THEN seeded ELSE {}]
    /\ xnat_session = FALSE
    /\ token = ""
    /\ processed_count = 0 /\ verified_count = 0
    /\ enabled_count = 0 /\ added_to_project_count = 0
    /\ pc = "idle"
    /\ course_ids = <<>> /\ course_names = <<>>
    /\ project_ids = {} /\ xnat_users = {}
    /\ ci = 0 /\ canvas_participants = <<>> /\ page = 1
    /\ project_users = {} /\ pn = 0
    /\ run = 0 /\ faults = 0 /\ tokenFailed = FALSE /\ clean = TRUE /\ crashSite = ""
    /\ last = NoCall /\ ptrace = <<>> /\ snap = <<0, 0, 0, 0>>
    /\ log = <<>> /\ succeeded = <<0, 0, 0>>
    /\ r_email = PyNone /\ r_process = "" /\ r_add = ""

\* the request carries a session cookie the Archive Service accepts
Authed == token # "" /\ xnat_session

\* the response of a service that works: 200, or 500 to a request it must refuse
Regular(can) == IF can THEN 200 ELSE 500

\* the statuses a request can end with (0: the transport raised)
Among(statuses, can) ==
    {s \in statuses : (s = Regular(can) \/ faults < MaxFaults) /\ (Ok(s) => can)}
GetOutcomes(can) == Among({200, 500, 0}, can)
CmdOutcomes(can) == Among({200, 204, 500, 0}, can)

\* the requests of a run that its record keeps
LoggedCalls == {"get_user_token", "get_canvas_courses", "get_project_ids_list",
                "get_users_in_xnat", "create_project", "get_canvas_participants",
                "get_user_project_data", "add_to_project", "close_connections"}

\* an entry of the record: the call, the course id it is for (0: none), the page
\* or the participant's position (0: none), and the loginId ("": none)
Entry(call) ==
    LET course == IF ci \in 1..Len(course_ids) THEN course_ids[ci] ELSE 0
        part == IF call = "get_canvas_participants" THEN page ELSE pn
        login == IF call = "add_to_project" THEN canvas_participants[pn].login_id ELSE ""
    IN  <<call, course, part, login>>

\* what a request leaves behind: the call, and the error lines it logged
Note(call, arg, status, more, can) ==
    /\ last' = [call |-> call, arg |-> arg, status |-> status,
                errors |-> (IF LogsError(status) /\ ~Raised(status) THEN 1 ELSE 0) + more]
    /\ clean' = (clean /\ status = 200)
    /\ faults' = IF status = Regular(can) THEN faults ELSE faults + 1
    /\ log' = IF call = "get_user_token" THEN <<Entry(call)>>
              ELSE IF call \in LoggedCalls THEN Append(log, Entry(call))
              ELSE log

\* an exception leaves execute_integration
Crash(site) ==
    /\ pc' = "crashed"
    /\ crashSite' = site
    /\ ResetFetched
    /\ ResetLoop

Event(op, status, value, role) == [op |-> op, status |-> status, value |-> value, role |-> role]

\* XNATIntegration.get_user_token, first statement of execute_integration
get_user_token ==
    /\ pc \in {"idle", "done"}
    /\ run < MaxRuns
    /\ \E status \in GetOutcomes(TRUE) :
        /\ Note("get_user_token", "", status, 0, TRUE)
        /\ run' = run + 1
        /\ tokenFailed' = ~Ok(status)
        /\ token' = IF Ok(status) THEN "JSESSIONID" ELSE token
        /\ xnat_session' = IF Ok(status) THEN TRUE ELSE xnat_session
        /\ ptrace' = <<>>
        /\ snap' = Counters
        /\ succeeded' = <<0, 0, 0>>
        /\ IF Raised(status)
           THEN Crash("get_user_token")
           ELSE /\ pc' = "get_canvas_courses"
                /\ crashSite' = ""
                /\ ResetFetched
                /\ ResetLoop
    /\ UNCHANGED <<rosterVars, xnat_projects, xnat_verified, xnat_enabled, xnat_members,
                   counterVars, roleVars>>

\* a list of ids read from the end of the response
course_ids_reversed(courses) ==
    [i \in 1..Len(courses) |-> courses[Len(courses) + 1 - i].id]

\* course_ids = [course['id'] for course in response.json()]
course_ids_of(courses) == [i \in 1..Len(courses) |-> courses[i].id]

\* CanvasIntegration.get_canvas_courses
get_canvas_courses ==
    /\ pc = "get_canvas_courses"
    /\ \E status \in GetOutcomes(TRUE) :
        /\ Note("get_canvas_courses", "", status, 0, TRUE)
        /\ IF status = 200
           THEN /\ course_ids' = course_ids_of(canvas_courses)
                /\ course_names' = [i \in 1..Len(canvas_courses) |-> canvas_courses[i].name]
                /\ pc' = "get_project_ids_list"
                /\ UNCHANGED <<project_ids, xnat_users, loopVars, crashSite>>
           ELSE Crash("get_canvas_courses")
    /\ UNCHANGED <<rosterVars, archiveVars, token, counterVars, run, tokenFailed,
                   ptrace, snap, succeeded, roleVars>>

\* XNATIntegration.get_project_ids_list
get_project_ids_list ==
    /\ pc = "get_project_ids_list"
    /\ \E status \in GetOutcomes(Authed), json \in BOOLEAN :
        /\ Note("get_project_ids_list", "", status, 0, Authed)
        /\ status = 200 => json
        /\ IF ~Raised(status) /\ json
           THEN /\ project_ids' = IF status = 200 THEN xnat_projects ELSE {}
                /\ pc' = "get_users_in_xnat"
                /\ UNCHANGED <<course_ids, course_names, xnat_users, loopVars, crashSite>>
           ELSE Crash("get_project_ids_list")
    /\ UNCHANGED <<rosterVars, archiveVars, token, counterVars, run, tokenFailed,
                   ptrace, snap, succeeded, roleVars>>

\* XNATIntegration.get_users_in_xnat and the len(xnat_users) that follows it
get_users_in_xnat ==
    /\ pc = "get_users_in_xnat"
    /\ \E status \in GetOutcomes(Authed) :
        /\ Note("get_users_in_xnat", "", status, 0, Authed)
        /\ IF status = 200
           THEN /\ xnat_users' = Accounts
                /\ pc' = "bootstrap"
                /\ ci' = 1
                /\ UNCHANGED <<course_ids, course_names, project_ids,
                               canvas_participants, page, project_users, pn, crashSite>>
           ELSE IF Raised(status)
           THEN Crash("get_users_in_xnat")
           ELSE Crash("len(xnat_users)")
    /\ UNCHANGED <<rosterVars, archiveVars, token, counterVars, run, tokenFailed,
                   ptrace, snap, succeeded, roleVars>>

\* a descriptor that takes the name at the head of the course list
create_xml_first_name(course_id, course_name) ==
    [ID |-> Str(course_id), secondary_ID |-> Str(course_id), name |-> course_names[1]]

\* IntegrationManager.create_xml
create_xml(course_id, course_name) ==
    [ID |-> Str(course_id), secondary_ID |-> Str(course_id), name |-> course_name]

\* a test that looks for the number itself among the project ids
NeedsProjectUnrendered(course_id) == <<course_id>> \notin project_ids

\* the test that a course has no project yet
NeedsProject(course_id) == Str(course_id) \notin project_ids

\* a create_project that raises for every status that is not a success
create_project_raise_for_status(status) == ~Ok(status)

\* XNATIntegration.create_project leaves by an exception only when the transport raised
create_project_raises(status) == Raised(status)

\* one iteration of the first loop over course_ids, with XNATIntegration.create_project
bootstrap ==
    /\ pc = "bootstrap"
    /\ IF ci > Len(course_ids)
       THEN /\ pc' = "course_loop"
            /\ ci' = 1
            /\ UNCHANGED <<xnat_projects, last, clean, faults, log, crashSite, fetchedVars,
                           canvas_participants, page, project_users, pn>>
       ELSE LET course_id == course_ids[ci]
                course_name == course_names[Index(course_ids, course_id)]
            IN  IF NeedsProject(course_id)
                THEN \E status \in CmdOutcomes(Authed) :
                        /\ Note("create_project", create_xml(course_id, course_name), status, 0, Authed)
                        /\ xnat_projects' = IF Ok(status)
                                            THEN xnat_projects \cup {Str(course_id)}
                                            ELSE xnat_projects
                        /\ IF create_project_raises(status)
                           THEN Crash("create_project")
                           ELSE /\ ci' = ci + 1
                                /\ UNCHANGED <<pc, crashSite, fetchedVars,
                                               canvas_participants, page, project_users, pn>>
                ELSE /\ ci' = ci + 1
                     /\ UNCHANGED <<pc, xnat_projects, last, clean, faults, log, crashSite, fetchedVars,
                                    canvas_participants, page, project_users, pn>>
    /\ UNCHANGED <<rosterVars, xnat_verified, xnat_enabled, xnat_members, xnat_session,
                   token, counterVars, run, tokenFailed, ptrace, snap, succeeded, roleVars>>

\* head of the second loop over course_ids; after it the summary is logged
course_loop ==
    /\ pc = "course_loop"
    /\ IF ci > Len(course_ids)
       THEN /\ pc' = "close_connections"
            /\ ResetLoop
       ELSE /\ pc' = "get_canvas_participants"
            /\ canvas_participants' = <<>>
            /\ page' = 1
            /\ UNCHANGED <<ci, project_users, pn>>
    /\ UNCHANGED <<rosterVars, archiveVars, token, counterVars, fetchedVars,
                   run, faults, tokenFailed, clean, crashSite, last, ptrace, snap, log,
                   succeeded, roleVars>>

\* an assignment in the place of extend
replaced(participants, items) == items

\* participants.extend(response.json())
extend(participants, items) == participants \o items

\* CanvasIntegration.get_canvas_participants: the request for one page
get_canvas_participants ==
    /\ pc = "get_canvas_participants"
    /\ LET all == canvas_users[course_ids[ci]]
           lo == (page - 1) * PageSize + 1
           hi == Min(page * PageSize, Len(all))
       IN  \E status \in GetOutcomes(TRUE), body \in {"json", "caught", "uncaught"} :
            /\ Note("get_canvas_participants", course_ids[ci], status, 0, TRUE)
            /\ status # 500 => body = "json"
            /\ IF status = 200
               THEN /\ canvas_participants' = extend(canvas_participants, SubSeq(all, lo, hi))
                    /\ IF hi < Len(all)
                       THEN page' = page + 1 /\ pc' = pc
                       ELSE page' = page /\ pc' = "get_user_project_data"
                    /\ UNCHANGED <<ci, project_users, pn, fetchedVars, crashSite>>
               ELSE IF status = 500 /\ body = "uncaught"
               THEN Crash("get_canvas_participants")
               ELSE /\ canvas_participants' =
                          IF status = 500 /\ body = "json"
                          THEN extend(canvas_participants, <<ErrorKey>>)
                          ELSE canvas_participants
                    /\ pc' = "get_user_project_data"
                    /\ UNCHANGED <<ci, page, project_users, pn, fetchedVars, crashSite>>
    /\ UNCHANGED <<rosterVars, archiveVars, token, counterVars, run, tokenFailed,
                   ptrace, snap, succeeded, roleVars>>

\* XNATIntegration.get_user_project_data
get_user_project_data ==
    /\ pc = "get_user_project_data"
    /\ LET project == Str(course_ids[ci])
       IN  \E status \in GetOutcomes(Authed /\ project \in xnat_projects) :
            /\ Note("get_user_project_data", project, status, 0, Authed /\ project \in xnat_projects)
            /\ IF Raised(status)
               THEN Crash("get_user_project_data")
               ELSE /\ project_users' = IF status = 200 THEN xnat_members[project] ELSE {}
                    /\ pc' = "participant"
                    /\ pn' = 1
                    /\ UNCHANGED <<ci, canvas_participants, page, fetchedVars, crashSite>>
    /\ UNCHANGED <<rosterVars, archiveVars, token, counterVars, run, tokenFailed,
                   ptrace, snap, succeeded, roleVars>>

\* a guard that forgets the account directory
MatchedWithoutDirectory(p) == HasKey(p, "login_id")

\* the guard of the participant loop in execute_integration
Matched(p) == HasKey(p, "login_id") /\ p.login_id \in xnat_users

\* one iteration of the participant loop, and the entry of process_participant
participant ==
    /\ pc = "participant"
    /\ IF pn > Len(canvas_participants)
       THEN /\ pc' = "course_loop"
            /\ ci' = ci + 1
            /\ canvas_participants' = <<>>
            /\ page' = 1
            /\ project_users' = {}
            /\ pn' = 0
            /\ UNCHANGED <<processed_count, ptrace, snap, log, crashSite, fetchedVars>>
       ELSE LET p == canvas_participants[pn]
            IN  IF ~Matched(p)
                THEN /\ pn' = pn + 1
                     /\ UNCHANGED <<pc, ci, canvas_participants, page, project_users,
                                    processed_count, ptrace, snap, log, crashSite, fetchedVars>>
                ELSE IF ~HasKey(p, "email")
                THEN /\ Crash("process_participant")
                     /\ UNCHANGED <<processed_count, ptrace, snap, log>>
                ELSE /\ processed_count' = processed_count + 1
                     /\ ptrace' = <<>>
                     /\ snap' = Counters
                     /\ log' = Append(log, <<"process_participant", course_ids[ci], pn, p.login_id>>)
                     /\ IF p.login_id = ""
                        THEN pn' = pn + 1 /\ pc' = pc
                        ELSE pn' = pn /\ pc' = "check_user_verified_in_xnat"
                     /\ UNCHANGED <<ci, canvas_participants, page, project_users,
                                    crashSite, fetchedVars>>
    /\ UNCHANGED <<rosterVars, archiveVars, token, verified_count, enabled_count,
                   added_to_project_count, succeeded, run, faults, tokenFailed, clean, last,
                   roleVars>>

login_id == canvas_participants[pn].login_id
email == canvas_participants[pn].email

\* a verified check whose answer is ignored
VerifyRegardless(verified) == "verify_user_in_xnat"

\* the step process_participant takes after the verified check
AfterVerifiedCheck(verified) ==
    IF verified THEN "check_user_enabled_in_xnat" ELSE "verify_user_in_xnat"

\* the step process_participant takes after the enabled check
AfterEnabledCheck(enabled) ==
    IF enabled THEN "add_to_project" ELSE "enable_user_in_xnat"

\* an answer that is the account's flag whatever the response
flag_whatever_the_response(status, flag) == flag

\* response.json() if response.ok, None otherwise, as process_participant tests it
check_answer(status, flag) == Ok(status) /\ flag

\* XNATIntegration.check_user_verified_in_xnat
check_user_verified_in_xnat ==
    /\ pc = "check_user_verified_in_xnat"
    /\ \E status \in GetOutcomes(Authed) :
        LET verified == check_answer(status, login_id \in xnat_verified)
        IN  /\ Note("check_user_verified_in_xnat", login_id, status, 0, Authed)
            /\ ptrace' = Append(ptrace, Event("check_verified", status, verified, ""))
            /\ IF Raised(status)
               THEN Crash("check_user_verified_in_xnat")
               ELSE /\ pc' = AfterVerifiedCheck(verified)
                    /\ UNCHANGED <<crashSite, fetchedVars, loopVars>>
    /\ UNCHANGED <<rosterVars, archiveVars, token, counterVars, run, tokenFailed,
                   snap, succeeded, roleVars>>

\* the Archive Service sets an account's flag to the value the path ends with
Flagged(accounts, login, flag) ==
    IF flag THEN accounts \cup {login} ELSE accounts \ {login}

\* a path that ends with false
path_flag_false == FALSE

\* PUT /xapi/users/{login_id}/verified/true
verified_path_flag == TRUE

\* PUT /xapi/users/{login_id}/enabled/true
enabled_path_flag == TRUE

\* a success test that accepts every response
AnyResponse(status) == ~Raised(status)

\* the status test of verify_user_in_xnat, enable_user_in_xnat and process_participant
CommandSucceeded(status) == status = 200

\* XNATIntegration.verify_user_in_xnat and the count of its success
verify_user_in_xnat ==
    /\ pc = "verify_user_in_xnat"
    /\ \E status \in CmdOutcomes(Authed) :
        /\ Note("verify_user_in_xnat", login_id, status, 0, Authed)
        /\ ptrace' = Append(ptrace, Event("verify", status, CommandSucceeded(status), ""))
        /\ xnat_verified' = IF Ok(status)
                            THEN Flagged(xnat_verified, login_id, verified_path_flag)
                            ELSE xnat_verified
        /\ verified_count' = IF CommandSucceeded(status)
                             THEN verified_count + 1 ELSE verified_count
        /\ succeeded' = [succeeded EXCEPT ![1] = IF status = 200 THEN @ + 1 ELSE @]
        /\ IF Raised(status)
           THEN Crash("verify_user_in_xnat")
           ELSE /\ pc' = "check_user_enabled_in_xnat"
                /\ UNCHANGED <<crashSite, fetchedVars, loopVars>>
    /\ UNCHANGED <<rosterVars, xnat_projects, xnat_enabled, xnat_members, xnat_session,
                   token, processed_count, enabled_count, added_to_project_count,
                   run, tokenFailed, snap, roleVars>>

\* XNATIntegration.check_user_enabled_in_xnat
check_user_enabled_in_xnat ==
    /\ pc = "check_user_enabled_in_xnat"
    /\ \E status \in GetOutcomes(Authed) :
        LET enabled == check_answer(status, login_id \in xnat_enabled)
        IN  /\ Note("check_user_enabled_in_xnat", login_id, status, 0, Authed)
            /\ ptrace' = Append(ptrace, Event("check_enabled", status, enabled, ""))
            /\ IF Raised(status)
               THEN Crash("check_user_enabled_in_xnat")
               ELSE /\ pc' = AfterEnabledCheck(enabled)
                    /\ UNCHANGED <<crashSite, fetchedVars, loopVars>>
    /\ UNCHANGED <<rosterVars, archiveVars, token, counterVars, run, tokenFailed,
                   snap, succeeded, roleVars>>

\* XNATIntegration.enable_user_in_xnat and the count of its success
enable_user_in_xnat ==
    /\ pc = "enable_user_in_xnat"
    /\ \E status \in CmdOutcomes(Authed) :
        /\ Note("enable_user_in_xnat", login_id, status, 0, Authed)
        /\ ptrace' = Append(ptrace, Event("enable", status, CommandSucceeded(status), ""))
        /\ xnat_enabled' = IF Ok(status)
                           THEN Flagged(xnat_enabled, login_id, enabled_path_flag)
                           ELSE xnat_enabled
        /\ enabled_count' = IF CommandSucceeded(status)
                            THEN enabled_count + 1 ELSE enabled_count
        /\ succeeded' = [succeeded EXCEPT ![2] = IF status = 200 THEN @ + 1 ELSE @]
        /\ IF Raised(status)
           THEN Crash("enable_user_in_xnat")
           ELSE /\ pc' = "add_to_project"
                /\ UNCHANGED <<crashSite, fetchedVars, loopVars>>
    /\ UNCHANGED <<rosterVars, xnat_projects, xnat_verified, xnat_members, xnat_session,
                   token, processed_count, verified_count, added_to_project_count,
                   run, tokenFailed, snap, roleVars>>

\* a membership test that finds nobody
never_member(login) == FALSE

\* the membership test of process_participant
IsMember(login) == login \in project_users

\* the end of process_participant: membership test and the add-to-project request
add_to_project ==
    /\ pc = "add_to_project"
    /\ LET project == Str(course_ids[ci])
           role == RoleInProcess(email)
       IN  IF IsMember(login_id)
           THEN /\ ptrace' = Append(ptrace, Event("membership", 200, TRUE, ""))
                /\ pc' = "participant"
                /\ pn' = pn + 1
                /\ UNCHANGED <<xnat_members, added_to_project_count, succeeded,
                               last, clean, faults, log, crashSite,
                               fetchedVars, ci, canvas_participants, page, project_users>>
           ELSE \E status \in CmdOutcomes(Authed /\ project \in xnat_projects) :
                /\ Note("add_to_project", login_id, status,
                        IF ~Raised(status) /\ ~CommandSucceeded(status) THEN 1 ELSE 0, Authed /\ project \in xnat_projects)
                /\ ptrace' = ptrace \o <<Event("membership", 200, FALSE, ""),
                                         Event("add", status, CommandSucceeded(status), role)>>
                /\ xnat_members' = IF Ok(status)
                                   THEN [xnat_members EXCEPT ![project] = @ \cup {login_id}]
                                   ELSE xnat_members
                /\ added_to_project_count' = IF CommandSucceeded(status)
                                             THEN added_to_project_count + 1
                                             ELSE added_to_project_count
                /\ succeeded' = [succeeded EXCEPT ![3] = IF status = 200 THEN @ + 1 ELSE @]
                /\ IF Raised(status)
                   THEN Crash("add_to_project")
                   ELSE /\ pc' = "participant"
                        /\ pn' = pn + 1
                        /\ UNCHANGED <<crashSite, fetchedVars, ci, canvas_participants,
                                       page, project_users>>
    /\ UNCHANGED <<rosterVars, xnat_projects, xnat_verified, xnat_enabled, xnat_session,
                   token, processed_count, verified_count, enabled_count,
                   run, tokenFailed, snap, roleVars>>

\* the summary lines and XNATIntegration.close_connections
close_connections ==
    /\ pc = "close_connections"
    /\ \E status \in CmdOutcomes(Authed) :
        /\ Note("close_connections", "", status, 0, Authed)
        /\ xnat_session' \in IF Ok(status) THEN {FALSE, xnat_session} ELSE {xnat_session}
        /\ IF Raised(status)
           THEN Crash("close_connections")
           ELSE /\ pc' = "done"
                /\ UNCHANGED <<crashSite, fetchedVars, loopVars>>
    /\ UNCHANGED <<rosterVars, xnat_projects, xnat_verified, xnat_enabled, xnat_members,
                   token, counterVars, run, tokenFailed, ptrace, snap, succeeded, roleVars>>

\* setup and IntegrationManager.__init__: a new client pair and a new manager
setup ==
    /\ pc \in {"done", "crashed"}
    /\ run < MaxRuns
    /\ pc' = "idle"
    /\ token' = ""
    /\ processed_count' = 0 /\ verified_count' = 0
    /\ enabled_count' = 0 /\ added_to_project_count' = 0
    /\ crashSite' = ""
    /\ last' = NoCall
    /\ ptrace' = <<>>
    /\ snap' = <<0, 0, 0, 0>>
    /\ log' = <<>>
    /\ succeeded' = <<0, 0, 0>>
    /\ tokenFailed' = FALSE
    /\ UNCHANGED <<rosterVars, archiveVars, fetchedVars, loopVars, run, faults, clean, roleVars>>

Next ==
    \/ get_user_token
    \/ get_canvas_courses
    \/ get_project_ids_list
    \/ get_users_in_xnat
    \/ bootstrap
    \/ course_loop
    \/ get_canvas_participants
    \/ get_user_project_data
    \/ participant
    \/ check_user_verified_in_xnat
    \/ verify_user_in_xnat
    \/ check_user_enabled_in_xnat
    \/ enable_user_in_xnat
    \/ add_to_project
    \/ close_connections
    \/ setup

Spec == Init /\ [][Next]_vars

\* ------------------------------------------------- role derivation on its own
Prefixes == {<<>>, <<"a">>, <<"s", "t">>}
Middles == {<<>>, StudentWord, <<"S", "t", "u", "d", "e", "n", "t">>,
            <<"s", "t", "u", "d", "e", "n">>, <<"s", "t", "u", "d", "@", "e", "n", "t">>,
            <<"t", "u", "d", "e", "n", "t">>}
Suffixes == {<<>>, <<"@", "x">>, <<"t">>, <<"s", "t", "u">>}
Emails == {PyNone} \cup {a \o b \o c : a \in Prefixes, b \in Middles, c \in Suffixes}

InitRole ==
    /\ canvas_courses = <<>>
    /\ canvas_users = [c \in CourseIdPool |-> <<>>]
    /\ xnat_projects = {} /\ xnat_verified = {} /\ xnat_enabled = {}
    /\ xnat_members = [p \in ProjectIdPool |-> {}]
    /\ xnat_session = FALSE
    /\ token = ""
    /\ processed_count = 0 /\ verified_count = 0
    /\ enabled_count = 0 /\ added_to_project_count = 0
    /\ pc = "idle"
    /\ course_ids = <<>> /\ course_names = <<>>
    /\ project_ids = {} /\ xnat_users = {}
    /\ ci = 0 /\ canvas_participants = <<>> /\ page = 1
    /\ project_users = {} /\ pn = 0
    /\ run = 0 /\ faults = 0 /\ tokenFailed = FALSE /\ clean = TRUE /\ crashSite = ""
    /\ last = NoCall /\ ptrace = <<>> /\ snap = <<0, 0, 0, 0>>
    /\ log = <<>> /\ succeeded = <<0, 0, 0>>
    /\ r_email \in Emails /\ r_process = "" /\ r_add = ""

mainVars == <<rosterVars, archiveVars, token, counterVars, frameVars,
              run, faults, tokenFailed, clean, crashSite, last, ptrace, snap, log, succeeded>>

\* the role process_participant puts in the request path
role_in_process_participant ==
    /\ r_process' = RoleInProcess(r_email)
    /\ UNCHANGED <<mainVars, r_email, r_add>>

\* the role XNATIntegration.add_user_to_project puts in the request path
add_user_to_project ==
    /\ r_add' = RoleInAdd(r_email)
    /\ UNCHANGED <<mainVars, r_email, r_process>>

\* another participant's email
next_email ==
    /\ r_email' \in Emails
    /\ r_process' = "" /\ r_add' = ""
    /\ UNCHANGED mainVars

NextRole == role_in_process_participant \/ add_user_to_project \/ next_email

SpecRole == InitRole /\ [][NextRole]_vars

\* ------------------------------------------------------------------ claims
PerParticipantCalls == {"check_user_verified_in_xnat", "verify_user_in_xnat",
                        "check_user_enabled_in_xnat", "enable_user_in_xnat",
                        "add_to_project"}
PerCourseCalls == PerParticipantCalls \cup
                  {"create_project", "get_canvas_participants", "get_user_project_data"}
RunOver == pc \in {"done", "crashed"}

\* C1: a second run that follows a first one, every response of both being 200,
\* ends with verified, enabled and addedToProject all 0.
C1_SecondRunCountsNothing ==
    (pc = "done" /\ run = 2 /\ clean) =>
        verified_count = 0 /\ enabled_count = 0 /\ added_to_project_count = 0

\* C2: in a run whose session acquisition failed, no per-course request is issued.
C2_NoCourseOperationWithoutSession ==
    tokenFailed => last.call \notin PerCourseCalls

\* C3: a failed fetch of the account directory does not make the run crash.
C3_DirectoryFailureTolerated ==
    crashSite # "len(xnat_users)"

\* C4: an exception of a per-course or per-participant operation never ends the run.
C4_ItemExceptionsIsolated ==
    pc = "crashed" => crashSite \notin (PerCourseCalls \cup {"process_participant"})

\* C5: a run that got its session and is over has attempted the teardown.
C5_TeardownAttempted ==
    (RunOver /\ ~tokenFailed) => last.call = "close_connections"

\* C6: when the participant loop passes a participant with an empty loginId,
\* processed grows by one and the other three counters stay.
C6_PendingCounted ==
    [][(/\ pc = "participant"
        /\ pn <= Len(canvas_participants)
        /\ HasKey(canvas_participants[pn], "login_id")
        /\ canvas_participants[pn].login_id = ""
        /\ pn' = pn + 1)
       => /\ processed_count' = processed_count + 1
          /\ UNCHANGED <<verified_count, enabled_count, added_to_project_count>>]_vars

\* C7: every per-participant request to the Archive Service names a loginId
\* of the account directory.
C7_UnmatchedUntouched ==
    last.call \in PerParticipantCalls => last.arg \in Accounts

\* C7 witness: the loop has passed a participant absent from the directory, and the
\* last request of the run is still the one made for the participant before.
C7_Witness ==
    /\ pc = "participant"
    /\ pn = 3
    /\ Len(canvas_participants) = 2
    /\ canvas_participants[2] = Ghost
    /\ last.call = "add_to_project"
    /\ last.arg = "jdoe"

\* the event that may follow event e in the requests made for one participant
Follows(e, f) ==
    /\ ~Raised(e.status)
    /\ CASE e.op = "check_verified" -> f.op = (IF e.value THEN "check_enabled" ELSE "verify")
         [] e.op = "verify" -> f.op = "check_enabled"
         [] e.op = "check_enabled" -> f.op = (IF e.value THEN "membership" ELSE "enable")
         [] e.op = "enable" -> f.op = "membership"
         [] e.op = "membership" -> ~e.value /\ f.op = "add"
         [] OTHER -> FALSE

\* the participant's procedure has run to its end
Complete(tr) ==
    /\ tr # <<>>
    /\ \/ tr[Len(tr)].op = "membership" /\ tr[Len(tr)].value
       \/ tr[Len(tr)].op = "add"

InProcedure == pc \in {"check_user_verified_in_xnat", "verify_user_in_xnat",
                       "check_user_enabled_in_xnat", "enable_user_in_xnat",
                       "add_to_project", "crashed"}

\* nothing was in place and every command returned 200
FullScenario(tr) ==
    /\ Len(tr) = 6
    /\ \A i \in 1..6 : tr[i].status = 200
    /\ ~tr[1].value /\ ~tr[3].value /\ ~tr[5].value

\* C8: the requests made for a matched participant come in the order check-verified,
\* verify (only after a negative check), check-enabled, enable (only after a negative
\* check), membership test, add-to-project (only for a non-member), and a procedure
\* that found nothing in place and got 200 for every command adds exactly one to each
\* of processed, verified, enabled and addedToProject.
C8_OrderedProcedure ==
    /\ ptrace # <<>> => ptrace[1].op = "check_verified"
    /\ \A i \in 1..(Len(ptrace) - 1) : Follows(ptrace[i], ptrace[i + 1])
    /\ (ptrace # <<>> /\ ~InProcedure) => Complete(ptrace)
    /\ (Complete(ptrace) /\ FullScenario(ptrace)) =>
            Counters = <<snap[1] + 1, snap[2] + 1, snap[3] + 1, snap[4] + 1>>

\* C8 witness: a participant went through all six steps, each command returning 200.
C8_Witness ==
    /\ pc = "participant"
    /\ FullScenario(ptrace)
    /\ [i \in 1..6 |-> ptrace[i].op] =
         <<"check_verified", "verify", "check_enabled", "enable", "membership", "add">>
    /\ ptrace[6].role = "collaborator"

Commands == {"verify_user_in_xnat", "enable_user_in_xnat", "add_to_project"}
CounterOf(c) == CASE c = "verify_user_in_xnat" -> verified_count
                  [] c = "enable_user_in_xnat" -> enabled_count
                  [] c = "add_to_project" -> added_to_project_count
StepAfter(c) == CASE c = "verify_user_in_xnat" -> "check_user_enabled_in_xnat"
                  [] c = "enable_user_in_xnat" -> "add_to_project"
                  [] c = "add_to_project" -> "participant"
FailureStatus(status) == ~Raised(status) /\ ~Ok(status)

\* C9: a verify, enable or add-to-project command that returns a failure status leaves
\* its counter as it was, logs at least one error line, and is followed by the next
\* step of the procedure (for add-to-project: by the next participant).
C9_FailedCommandIsolated ==
    [][\A c \in Commands :
        (pc = c /\ last'.call = c /\ FailureStatus(last'.status)) =>
            /\ CounterOf(c)' = CounterOf(c)
            /\ last'.errors >= 1
            /\ pc' = StepAfter(c)
            /\ (c = "add_to_project" => pn' = pn + 1)]_vars

\* C9 witness: an add-to-project command has failed, and the loop stands at the
\* participant after it.
C9_Witness ==
    /\ pc = "participant"
    /\ last.call = "add_to_project"
    /\ FailureStatus(last.status)
    /\ pn = 2
    /\ Len(canvas_participants) = 2
    /\ added_to_project_count = 0

\* the role the specification gives an email
HasStudentAt(e, i) == \A k \in 1..Len(StudentWord) : e[i + k - 1] = StudentWord[k]
SpecifiedRole(e) ==
    IF e = PyNone \/ e = <<>> THEN "collaborator"
    ELSE IF \E i \in 1..Len(e) : i + Len(StudentWord) - 1 <= Len(e) /\ HasStudentAt(e, i)
         THEN "collaborator"
    ELSE "member"

\* C10: the role is collaborator for an absent or empty email and for one that
\* contains "student", member for any other, and the derivation of
\* process_participant agrees with the one of add_user_to_project.
C10_RoleDerivation ==
    /\ r_process # "" => r_process = SpecifiedRole(r_email)
    /\ r_add # "" => r_add = SpecifiedRole(r_email)
    /\ (r_process # "" /\ r_add # "") => r_process = r_add

\* C10 witness: both derivations made a collaborator of an email that has "student"
\* after its first character.
C10_Witness ==
    /\ r_email # PyNone
    /\ Len(r_email) > Len(StudentWord)
    /\ ~StartsWith(r_email, StudentWord)
    /\ Contains(r_email, StudentWord)
    /\ r_process = "collaborator"
    /\ r_add = "collaborator"

\* ---------------------------------------------------------------------------
\* the entries of the run's record
Call(e) == e[1]
CourseOf(e) == e[2]
PartOf(e) == e[3]
LoginOf(e) == e[4]
Entries(call) == {i \in DOMAIN log : Call(log[i]) = call}

\* C11: a course whose id, written as a string, is in the project-id list
\* fetched at the start of the run gets no create-project request in that run:
\* every create-project request of the run is for a course whose id string is
\* not in the list, also when the Roster Service gave the id as a number.
C11_ListedCourseNotCreated ==
    pc # "crashed" =>
        \A i \in Entries("create_project") : Str(CourseOf(log[i])) \notin project_ids

\* C11 witness: the first loop has passed a course with a two-digit numeric id
\* whose string form is in the fetched list, and asked for no project.
C11_Witness ==
    /\ pc = "course_loop"
    /\ Anatomy.id \in {course_ids[i] : i \in DOMAIN course_ids}
    /\ Str(Anatomy.id) \in project_ids
    /\ Entries("create_project") = {}

\* the first loop over the courses is behind the run, and its frame is still there
BootstrapOver ==
    pc \in PerCourseCalls \cup PerParticipantCalls
           \cup {"course_loop", "participant", "add_to_project", "close_connections", "done"}

CreatesFor(course_id) == {i \in Entries("create_project") : CourseOf(log[i]) = course_id}

\* C12: a course of the course list whose id is not in the fetched project-id
\* list gets exactly one create-project request in the run (never two, and one
\* once the first loop is over), and the descriptor of the request has ID and
\* secondary_ID equal to the string form of the id and the name of that course.
C12_MissingCourseCreatedOnce ==
    /\ \A i, j \in Entries("create_project") :
            CourseOf(log[i]) = CourseOf(log[j]) => i = j
    /\ BootstrapOver =>
            \A k \in DOMAIN course_ids :
                Str(course_ids[k]) \notin project_ids
                    => Cardinality(CreatesFor(course_ids[k])) = 1
    /\ last.call = "create_project" =>
            \E k \in DOMAIN canvas_courses :
                /\ CourseOf(log[Len(log)]) = canvas_courses[k].id
                /\ last.arg.ID = Str(canvas_courses[k].id)
                /\ last.arg.secondary_ID = Str(canvas_courses[k].id)
                /\ last.arg.name = canvas_courses[k].name

\* C12 witness: the first loop is over and asked for the project of each of two
\* missing courses, the second with that course's own name.
C12_Witness ==
    /\ pc = "course_loop"
    /\ Cardinality(Entries("create_project")) = Len(canvas_courses)
    /\ Len(canvas_courses) > 1
    /\ last.call = "create_project"
    /\ last.arg = [ID |-> Str(Anatomy.id), secondary_ID |-> Str(Anatomy.id), name |-> Anatomy.name]

ProjectMissing(course_id) == Str(course_id) \notin xnat_projects

\* C13: a create-project request that returns a failure status does not end the
\* run: the first loop stands at a course after it (or is over, the second loop
\* standing at its first course, whose participants are the next request); a run that reaches its end has fetched the
\* members of every course; and an add-to-project request that fails for a
\* course without a project leaves the counter as it was and the loop at a
\* later participant, or at the next course when there is none (the run can
\* still end at a later participant, one that has no email key).
C13_FailedCreateGoesOn ==
    /\ (last.call = "create_project" /\ FailureStatus(last.status)) =>
            \/ /\ pc = "bootstrap"
               /\ \E k \in 1..(ci - 1) : course_ids[k] = CourseOf(log[Len(log)])
            \/ /\ pc \in {"course_loop", "get_canvas_participants"}
               /\ ci = 1
    /\ pc = "done" =>
            \A k \in DOMAIN course_ids :
                \E i \in Entries("get_user_project_data") : CourseOf(log[i]) = course_ids[k]
    /\ (last.call = "add_to_project" /\ FailureStatus(last.status)
            /\ Call(log[Len(log)]) = "add_to_project"
            /\ ProjectMissing(CourseOf(log[Len(log)]))) =>
            /\ pc \in {"participant", "course_loop", "get_canvas_participants",
                       "close_connections", "crashed"}
            /\ pc = "participant" => pn > PartOf(log[Len(log)])
            /\ pc = "crashed" => crashSite = "process_participant"
            /\ added_to_project_count = snap[4]

\* C13 witness: a run has ended in which a create-project request failed, the
\* course is still without a project, an add-to-project request for it failed,
\* and a later participant of the same course was processed.
C13_Witness ==
    /\ pc = "done"
    /\ \E i \in Entries("create_project") :
        /\ ProjectMissing(CourseOf(log[i]))
        /\ \E j \in Entries("add_to_project"), k \in Entries("process_participant") :
            /\ i < j /\ j < k
            /\ CourseOf(log[j]) = CourseOf(log[i])
            /\ CourseOf(log[k]) = CourseOf(log[i])
            /\ PartOf(log[k]) > PartOf(log[j])

\* C14: the four counters are 0 when a run starts (after its first request, before
\* anything else is done), and at the end of the run they count that run's
\* outcomes only: the participants it processed and the commands it saw succeed,
\* also when the run is not the first one of its IntegrationManager.
C14_CountersResetPerRun ==
    /\ pc = "get_canvas_courses" => Counters = <<0, 0, 0, 0>>
    /\ RunOver =>
        /\ processed_count = Cardinality(Entries("process_participant"))
        /\ <<verified_count, enabled_count, added_to_project_count>> = succeeded

\* C15: for a processed participant record no step of the procedure happens
\* twice (so each of the three checks is followed by at most one corrective
\* command), and no step of the program takes back what an earlier one achieved:
\* no account stops being verified or enabled and no project loses a member.
C15_NoRevisitNoRollback ==
    [][/\ \A i, j \in DOMAIN ptrace' : ptrace'[i].op = ptrace'[j].op => i = j
       /\ xnat_verified \subseteq xnat_verified'
       /\ xnat_enabled \subseteq xnat_enabled'
       /\ \A p \in ProjectIdPool : xnat_members[p] \subseteq xnat_members'[p]]_vars

\* C15 witness: a participant was verified by the run's own command, the
\* add-to-project command for them failed, and they are still verified.
C15_Witness ==
    /\ pc = "participant"
    /\ last.call = "add_to_project"
    /\ FailureStatus(last.status)
    /\ \E i \in DOMAIN ptrace : ptrace[i].op = "verify" /\ ptrace[i].status = 200
    /\ last.arg \in xnat_verified

\* the phase of the run a call belongs to
Phase(e) ==
    CASE Call(e) = "get_user_token" -> 1
      [] Call(e) = "get_canvas_courses" -> 2
      [] Call(e) = "get_project_ids_list" -> 3
      [] Call(e) = "get_users_in_xnat" -> 4
      [] Call(e) = "create_project" -> 5
      [] Call(e) = "close_connections" -> 7
      [] OTHER -> 6
\* the place of a call in the handling of one course
StepInCourse(e) ==
    CASE Call(e) = "get_canvas_participants" -> 1
      [] Call(e) = "get_user_project_data" -> 2
      [] OTHER -> 3
\* the position of a course in the list the Roster Service returned
Position(course_id) == CHOOSE k \in DOMAIN canvas_courses : canvas_courses[k].id = course_id
FirstOfCourse(e) == Call(e) = "get_canvas_participants" /\ PartOf(e) = 1

\* two entries of the record that follow one another do so in the fixed order
InOrder(a, b) ==
    /\ Phase(a) <= Phase(b)
    /\ Phase(a) = Phase(b) => Phase(a) \in {5, 6}
    /\ (Phase(a) = 5 /\ Phase(b) = 5) => Position(CourseOf(a)) < Position(CourseOf(b))
    /\ (Phase(a) < 6 /\ Phase(b) = 6) => Position(CourseOf(b)) = 1 /\ FirstOfCourse(b)
    /\ (Phase(a) = 6 /\ Phase(b) = 6) =>
        IF CourseOf(a) # CourseOf(b)
        THEN Position(CourseOf(b)) = Position(CourseOf(a)) + 1 /\ FirstOfCourse(b)
        ELSE /\ StepInCourse(a) <= StepInCourse(b)
             /\ (StepInCourse(a) = 1 /\ StepInCourse(b) = 1) => PartOf(b) = PartOf(a) + 1
             /\ ~(StepInCourse(a) = 2 /\ StepInCourse(b) = 2)
             /\ (StepInCourse(a) = 3 /\ StepInCourse(b) = 3) =>
                    \/ PartOf(a) < PartOf(b)
                    \/ /\ PartOf(a) = PartOf(b)
                       /\ Call(a) = "process_participant"
                       /\ Call(b) = "add_to_project"

\* C16: a run does its work in a fixed order: the session request is its first
\* call; the course list, the project-id list and the account directory are
\* fetched once each, in that order; every create-project request comes before
\* the first participant request of any course; the courses are taken in the
\* order of the Roster Service's list and the participants of a course in the
\* order of the pages and of their place in them, the checks and commands for a
\* participant being made while that participant is the last one taken up;
\* nothing follows the release of the session.
C16_FixedPhaseOrder ==
    /\ log # <<>> => Call(log[1]) = "get_user_token"
    /\ \A i \in 1..(Len(log) - 1) : InOrder(log[i], log[i + 1])
    /\ pc \in PerParticipantCalls =>
            /\ Call(log[Len(log)]) = "process_participant"
            /\ CourseOf(log[Len(log)]) = course_ids[ci]
            /\ PartOf(log[Len(log)]) = pn
    /\ pc = "done" => last.call = "close_connections" /\ Call(log[Len(log)]) = last.call

\* C16 witness: a finished run over two courses that created a project, read two
\* pages of participants, processed two participants of a course and released
\* the session.
C16_Witness ==
    /\ pc = "done"
    /\ Len(canvas_courses) > 1
    /\ Call(log[Len(log)]) = "close_connections"
    /\ Entries("create_project") # {}
    /\ \E i \in Entries("get_canvas_participants") : PartOf(log[i]) > 1
    /\ \E i, j \in Entries("process_participant") :
            CourseOf(log[i]) = CourseOf(log[j]) /\ PartOf(log[i]) < PartOf(log[j])

\* the pages the Roster Service cuts a list into (an empty list is one empty page)
NumPages(all) == IF all = <<>> THEN 1 ELSE (Len(all) + PageSize - 1) \div PageSize
FirstPages(all, n) == SubSeq(all, 1, Min(n * PageSize, Len(all)))

\* C17: get_canvas_participants starts at page 1 and follows the next links:
\* while it is fetching page n it holds the concatenation of pages 1..n-1, and n
\* is never beyond the last page (so it stops when the pages are finitely many);
\* when the page without a next link has arrived it returns the whole list in
\* page order; when the transport raises it returns the pages it holds and the
\* exception does not leave the function.
C17_PagesConcatenated ==
    /\ pc = "get_canvas_participants" =>
        /\ page <= NumPages(canvas_users[course_ids[ci]])
        /\ canvas_participants = FirstPages(canvas_users[course_ids[ci]], page - 1)
    /\ (pc = "get_user_project_data" /\ last.status = 200) =>
        /\ page = NumPages(canvas_users[course_ids[ci]])
        /\ canvas_participants = canvas_users[course_ids[ci]]
    /\ (pc = "get_user_project_data" /\ Raised(last.status)) =>
        canvas_participants = FirstPages(canvas_users[course_ids[ci]], page - 1)
    /\ (last.call = "get_canvas_participants" /\ Raised(last.status)) => pc # "crashed"

\* C17 witness: the transport raised on the second page, and the function
\* returned the first page.
C17_Witness ==
    /\ pc = "get_user_project_data"
    /\ last.call = "get_canvas_participants"
    /\ Raised(last.status)
    /\ page > 1
    /\ canvas_participants # <<>>
    /\ Len(canvas_participants) < Len(canvas_users[course_ids[ci]])

\* C18: in every state verified, enabled and addedToProject are at most
\* processed, and each of the three equals the number of its commands that have
\* succeeded so far in the current run.
C18_CountersMatchRun ==
    /\ verified_count <= processed_count
    /\ enabled_count <= processed_count
    /\ added_to_project_count <= processed_count
    /\ verified_count = succeeded[1]
    /\ enabled_count = succeeded[2]
    /\ added_to_project_count = succeeded[3]

AddsFor(course_id, login) ==
    {i \in Entries("add_to_project") : CourseOf(log[i]) = course_id /\ LoginOf(log[i]) = login}

IsCheck(e) == e.op \in {"check_verified", "check_enabled"}
CommandOf(op) == IF op = "check_verified" THEN "verify" ELSE "enable"
CountedBy(op) == IF op = "verify" THEN verified_count - snap[2] ELSE enabled_count - snap[3]

\* C20: when the verified or the enabled query returns a failure status, the
\* participant is taken as not verified, respectively not enabled, whatever the
\* account's flag is: the command follows the query, and its counter goes up by
\* one exactly when the command returns 200.
C20_FailedQueryMeansUnset ==
    /\ \A i \in DOMAIN ptrace :
        (IsCheck(ptrace[i]) /\ FailureStatus(ptrace[i].status)) =>
            /\ ~ptrace[i].value
            /\ i < Len(ptrace) => ptrace[i + 1].op = CommandOf(ptrace[i].op)
            /\ i = Len(ptrace) => pc = CommandOf(ptrace[i].op) \o "_user_in_xnat"
    /\ \A i \in DOMAIN ptrace :
        ptrace[i].op \in {"verify", "enable"} =>
            CountedBy(ptrace[i].op) = IF ptrace[i].status = 200 THEN 1 ELSE 0

\* C20 witness: the verified query failed for an account that an earlier
\* participant record of the run had already got verified, and the command was
\* issued and counted again.
C20_Witness ==
    /\ Len(ptrace) > 1
    /\ ptrace[1].op = "check_verified" /\ FailureStatus(ptrace[1].status)
    /\ ptrace[2].op = "verify" /\ ptrace[2].status = 200
    /\ succeeded[1] > 1
    /\ \A i \in Entries("process_participant") : LoginOf(log[i]) = "jdoe"

====
